---- MODULE Spec2Model ----
(***************************************************************************)
(* The S3 log aggregator of pcmds (src/unnamed/part_004, the Lambda        *)
(* variant that gzips every object before buffering it; part_003 is the   *)
(* CLI variant with the same control flow).                                *)
(*                                                                         *)
(* One invocation of handleRequest is modelled: the orchestrator goroutine *)
(* (handleRequest and the run it calls for each app prefix), the           *)
(* workerCount worker goroutines every run spawns, the aggregator they     *)
(* share (buffer, size counter, file counter, mutex), the two channels of  *)
(* a run, and the object store behind ListObjectsV2, GetObject, PutObject. *)
(*                                                                         *)
(* Strings are sequences of tokens, so that prefixes, Sprintf and the      *)
(* Trim functions are computed and not assumed.  Sizes are scaled: the     *)
(* 500 MB threshold is maxOutputSize bytes of the model.                   *)
(***************************************************************************)
EXTENDS Integers, Sequences, FiniteSets, Bags, TLC

\* Most source objects an app holds for the date in the initial store.
MaxKeys == 2

\* part_004:21, scaled from 500 * 1024 * 1024 bytes to 4.
maxOutputSize == 4
\* part_004:22.
workerCount == 4

\* The error value nil, and errors as token sequences.
Nil == <<>>

\* The apps (top-level prefixes) of the bucket, in listing order, and the
\* names of the log objects an app may hold under <app>/<date>/.
AppNames == <<"a", "b">>
LogNames == <<"log1", "log2", "log3", "log4", "log5">>
TheDate == "d"
TheBucket == "bkt"
OtherDate == "c"

\* Byte order of the tokens keys are made of ("/" < digits < letters).
TokenOrder ==
    <<"/", ".gz", "0", "1", "2", "3", "4", "5", "6", "7", "8", "9",
      "a", "aggregated_", "b", "c", "d", "log1", "log2", "log3", "log4", "log5">>

\* Two kinds of decoded content: a small incompressible one (the gzip framing
\* makes it longer) and a compressible one (longer than the threshold, far
\* shorter once gzipped).
Kinds == {"small", "zeros"}
RawLen(k) == IF k = "small" THEN 1 ELSE 5
GzLen(k) == IF k = "small" THEN 2 ELSE 1

VARIABLES
    event,          \* LambdaInput: [date, bucket, dryRun]
    dryRun,         \* the package-level flag (part_004:237-239)
    store,          \* the bucket: a set of objects [key, c, data]
    opc,            \* position of the goroutine that runs handleRequest and run
    jobErr,         \* what handleRequest returned
    agg,            \* the aggregator's fields
    mu,             \* agg.mu is locked
    appsLeft,       \* page.CommonPrefixes still to iterate
    app,            \* handleRequest's local app
    objChanClosed,  \* run's objChan (unbuffered) is closed
    errChan,        \* run's errChan, capacity workerCount
    wg,             \* run's WaitGroup counter
    pager,          \* run's paginator: [first, token]
    page,           \* page.Contents still to iterate in run
    runErr,         \* what the last run returned
    workers,        \* the live worker goroutines: a bag of their local states
    putLog,         \* every PutObject invocation, in order
    dryLog,         \* every "Dry run: would upload" log line, in order
    flushLog,       \* every uploadBuffer that passed the emptiness check
    ops,            \* which runs were started and which store operations issued, per app
    runResult,      \* per app: what its run returned
    runNo,          \* number of runs started
    listed          \* keys the current run's listing returned so far

vars ==
    <<event, dryRun, store, opc, jobErr, agg, mu, appsLeft, app, objChanClosed,
      errChan, wg, pager, page, runErr, workers, putLog, dryLog, flushLog, ops,
      runResult, runNo, listed>>

----------------------------------------------------------------------------
(* Strings *)

IsPrefix(p, s) == Len(p) <= Len(s) /\ SubSeq(s, 1, Len(p)) = p

IsSuffix(p, s) == Len(p) <= Len(s) /\ SubSeq(s, Len(s) - Len(p) + 1, Len(s)) = p

TrimPrefix(s, p) == IF IsPrefix(p, s) THEN SubSeq(s, Len(p) + 1, Len(s)) ELSE s

TrimSuffix(s, p) == IF IsSuffix(p, s) THEN SubSeq(s, 1, Len(s) - Len(p)) ELSE s

\* Index of the first "/" of s at or after position i, 0 when there is none.
RECURSIVE IndexSlash(_, _)
IndexSlash(s, i) ==
    IF i > Len(s) THEN 0
    ELSE IF s[i] = "/" THEN i
    ELSE IndexSlash(s, i + 1)

\* parseS3URI: the URI must start with "s3://" and hold a "/" after the bucket.
parseS3URI(uri) ==
    IF ~IsPrefix(<<"s3://">>, uri)
    THEN [bucket |-> <<>>, prefix |-> <<>>, err |-> <<"invalid S3 URI format">>]
    ELSE LET rest == TrimPrefix(uri, <<"s3://">>)
             at == IndexSlash(rest, 1)
         IN IF at = 0
            THEN [bucket |-> <<>>, prefix |-> <<>>, err |-> <<"invalid S3 URI format">>]
            ELSE [bucket |-> SubSeq(rest, 1, at - 1),
                  prefix |-> SubSeq(rest, at + 1, Len(rest)),
                  err |-> Nil]

DigitChar == <<"0", "1", "2", "3", "4", "5", "6", "7", "8", "9">>

\* The decimal digits of n >= 0, most significant first.
RECURSIVE Digits(_)
Digits(n) ==
    IF n < 10 THEN <<DigitChar[n + 1]>>
    ELSE Digits(n \div 10) \o <<DigitChar[(n % 10) + 1]>>

\* Sprintf("%03d", n): zero-padded to at least three digits.
Fmt03d(n) ==
    LET d == Digits(n)
    IN IF Len(d) >= 3 THEN d
       ELSE IF Len(d) = 2 THEN <<"0">> \o d
       ELSE <<"0", "0">> \o d

\* Sprintf("%saggregated_%03d.gz", destPrefix, fileCounter)
BundleKey(destPrefix, n) == destPrefix \o <<"aggregated_">> \o Fmt03d(n) \o <<".gz">>

----------------------------------------------------------------------------
(* Content and gzip *)

\* The decoded content of a log object: which object it came from, its length
\* and the length of its gzip encoding.
LogContent(key, kind) == [obj |-> key, rawLen |-> RawLen(kind), gzLen |-> GzLen(kind)]

\* gzip of a content: one gzip member, as its bytes.
Gzip(c) == [i \in 1..c.gzLen |-> [c |-> c, i |-> i]]

\* What decoding yields for a stream that is not whole gzip members one after
\* another.
Corrupt == <<[obj |-> <<"corrupt">>, rawLen |-> 0, gzLen |-> 0]>>

\* Decoding a stream of gzip members: the sequence of their contents.
RECURSIVE Gunzip(_)
Gunzip(bytes) ==
    IF bytes = <<>> THEN <<>>
    ELSE LET c == bytes[1].c
         IN IF Len(bytes) >= c.gzLen /\ SubSeq(bytes, 1, c.gzLen) = Gzip(c)
            THEN LET rest == Gunzip(SubSeq(bytes, c.gzLen + 1, Len(bytes)))
                 IN IF rest = Corrupt THEN rest ELSE <<c>> \o rest
            ELSE Corrupt

\* A Write that copies nothing.
BufferWriteNothing(buf, byte) == buf

\* bytes.Buffer.Write copies p to the end of the buffer; this is the copy of
\* one byte of it.
BufferWrite(buf, byte) == Append(buf, byte)

----------------------------------------------------------------------------
(* The object store *)

Rank(t) == CHOOSE i \in 1..Len(TokenOrder) : TokenOrder[i] = t

RECURSIVE KeyLess(_, _)
KeyLess(k1, k2) ==
    IF k1 = <<>> THEN k2 # <<>>
    ELSE IF k2 = <<>> THEN FALSE
    ELSE IF k1[1] = k2[1] THEN KeyLess(Tail(k1), Tail(k2))
    ELSE Rank(k1[1]) < Rank(k2[1])

RECURSIVE SortKeys(_)
SortKeys(S) ==
    IF S = {} THEN <<>>
    ELSE LET m == CHOOSE k \in S : \A o \in S \ {k} : KeyLess(k, o)
         IN <<m>> \o SortKeys(S \ {m})

LogKey(a, i) == <<a, "/", TheDate, "/", LogNames[i]>>

\* ListObjectsV2 without delimiter: the keys under prefix after the
\* continuation token, in key order.
ListKeys(prefix, token) ==
    SortKeys({o.key : o \in {x \in store :
        /\ IsPrefix(prefix, x.key)
        /\ token = <<>> \/ KeyLess(token[1], x.key)}})

\* ListObjectsV2 with delimiter "/": the common prefixes under prefix.
CommonPrefixes(prefix) ==
    SortKeys({SubSeq(k, 1, IndexSlash(k, Len(prefix) + 1)) :
        k \in {o.key : o \in {x \in store :
            IsPrefix(prefix, x.key) /\ IndexSlash(x.key, Len(prefix) + 1) > 0}}})

\* The app a key or a prefix belongs to.
OpApp(k) == IF k = <<>> THEN "" ELSE k[1]

\* What decoding a bundle yields: the buffer's bytes; gzip of already
\* compressed bytes does not shrink them and adds its framing.
BundleContent(key, buf) == [obj |-> key, rawLen |-> Len(buf), gzLen |-> Len(buf) + 1]

\* The stores the model starts from: every app holds a marker object of another
\* date (so it is listed as an app) and up to MaxKeys logs for the date.
AppSet == {AppNames[i] : i \in 1..Len(AppNames)}

KindLists == UNION {[1..n -> Kinds] : n \in 0..MaxKeys}

StoreOf(f) ==
    {[key |-> <<a, "/", OtherDate, "/", LogNames[1]>>,
      c |-> LogContent(<<a, "/", OtherDate, "/", LogNames[1]>>, "small"),
      data |-> <<>>] : a \in AppSet}
    \cup
    {[key |-> LogKey(ai[1], ai[2]),
      c |-> LogContent(LogKey(ai[1], ai[2]), f[ai[1]][ai[2]]),
      data |-> <<>>] :
        ai \in {x \in AppSet \X (1..MaxKeys) : x[2] <= Len(f[x[1]])}}

InitialStores == {StoreOf(f) : f \in [AppSet -> KindLists]}

----------------------------------------------------------------------------
(* Goroutines *)

NoContent == [obj |-> <<>>, rawLen |-> 0, gzLen |-> 0]

\* The local state of a worker goroutine (the closure of part_004:177-185):
\* where it is, its key, the content it decoded, the error it got, and how many
\* bytes its Write has copied.  The closures have no name and differ in nothing
\* else, so the live workers are a bag of local states.
Worker(at, key, c, err) ==
    [id |-> "worker", pc |-> at, key |-> key, c |-> c, err |-> err, n |-> 0]

\* A worker that is receiving from objChan (part_004:179).
Receiving == Worker("recv", <<>>, NoContent, Nil)

\* The goroutine of handleRequest and run, as a caller of uploadBuffer.
Orch == [id |-> "orch", pc |-> opc, key |-> <<>>, c |-> NoContent, err |-> Nil, n |-> 0]

LiveWorkers == BagToSet(workers)

Goroutines == {Orch} \cup LiveWorkers

\* A run that starts one worker more than workerCount.
SpawnedOneMore == [w \in {Receiving} |-> workerCount + 1]

\* go func() { ... }() workerCount times (part_004:175-186).
Spawned == [w \in {Receiving} |-> workerCount]

\* Worker w goes on as w2.
Becomes(w, w2) == workers' = (workers (-) SetToBag({w})) (+) SetToBag({w2})

\* Worker w returns: the deferred wg.Done (part_004:178).
Exits(w) ==
    /\ workers' = workers (-) SetToBag({w})
    /\ wg' = wg - 1

\* Goroutine g moves to position at.
Goes(g, at) ==
    IF g.id = "orch"
    THEN opc' = at /\ workers' = workers
    ELSE opc' = opc /\ Becomes(g, [g EXCEPT !.pc = at])

----------------------------------------------------------------------------
(* Initial state: the process has started, handleRequest has not *)

Events == [date : {"", TheDate}, bucket : {"", TheBucket}, dryRun : BOOLEAN]

NoAgg ==
    [made |-> FALSE, sourceBucket |-> <<>>, sourcePrefix |-> <<>>, destBucket |-> <<>>,
     destPrefix |-> <<>>, currentBuffer |-> <<>>, currentSize |-> 0, fileCounter |-> 0]

NotRun == <<"not run">>
Ok == <<"ok">>

Init ==
    /\ event \in Events
    /\ dryRun = FALSE
    /\ store \in InitialStores
    /\ opc = "start"
    /\ jobErr = Nil
    /\ agg = NoAgg
    /\ mu = FALSE
    /\ appsLeft = <<>>
    /\ app = ""
    /\ objChanClosed = FALSE
    /\ errChan = <<>>
    /\ wg = 0
    /\ pager = [first |-> FALSE, token |-> <<>>]
    /\ page = <<>>
    /\ runErr = Nil
    /\ workers = EmptyBag
    /\ putLog = <<>>
    /\ dryLog = <<>>
    /\ flushLog = <<>>
    /\ ops = {}
    /\ runResult = [a \in AppSet |-> NotRun]
    /\ runNo = 0
    /\ listed = <<>>

runVars == <<objChanClosed, errChan, wg, pager, page, runErr, runResult, runNo, listed>>
storeVars == <<store, putLog, dryLog, flushLog, ops>>
jobVars == <<event, dryRun, jobErr, appsLeft, app>>

----------------------------------------------------------------------------
(* handleRequest *)

\* handleRequest returns err.
JobReturns(err) ==
    /\ jobErr' = err
    /\ opc' = "done"

\* A handleRequest that sets the flag before it checks the parameters.
HandleRequestFlagFirst ==
    /\ opc = "start"
    /\ dryRun' = event.dryRun
    /\ IF event.date = ""
       THEN JobReturns(<<"Date is required">>) /\ UNCHANGED agg
       ELSE IF event.bucket = ""
       THEN JobReturns(<<"Bucket is required">>) /\ UNCHANGED agg
       ELSE LET src == parseS3URI(<<"s3://", event.bucket, "/">>)
            IN /\ agg' = [made |-> TRUE,
                          sourceBucket |-> src.bucket,
                          sourcePrefix |-> src.prefix,
                          destBucket |-> src.bucket,
                          destPrefix |-> src.prefix,
                          currentBuffer |-> <<>>,
                          currentSize |-> 0,
                          fileCounter |-> 0]
               /\ opc' = "listApps"
               /\ UNCHANGED jobErr
    /\ UNCHANGED <<event, mu, appsLeft, app, workers, runVars, storeVars>>

\* part_004:247-270: the parameter checks, the flag, the URIs, the aggregator.
\* config.LoadDefaultConfig may fail.
HandleRequest ==
    /\ opc = "start"
    /\ IF event.date = ""
       THEN JobReturns(<<"Date is required">>) /\ UNCHANGED <<dryRun, agg>>
       ELSE IF event.bucket = ""
       THEN JobReturns(<<"Bucket is required">>) /\ UNCHANGED <<dryRun, agg>>
       ELSE LET src == parseS3URI(<<"s3://", event.bucket, "/">>)
                dst == parseS3URI(<<"s3://", event.bucket, "/">>)
            IN /\ dryRun' = event.dryRun
               /\ IF src.err # Nil THEN JobReturns(src.err) /\ UNCHANGED agg
                  ELSE IF dst.err # Nil THEN JobReturns(dst.err) /\ UNCHANGED agg
                  ELSE \E loaded \in BOOLEAN :
                         IF ~loaded
                         THEN JobReturns(<<"unable to load SDK config">>) /\ UNCHANGED agg
                         ELSE /\ agg' = [made |-> TRUE,
                                         sourceBucket |-> src.bucket,
                                         sourcePrefix |-> src.prefix,
                                         destBucket |-> dst.bucket,
                                         destPrefix |-> dst.prefix,
                                         currentBuffer |-> <<>>,
                                         currentSize |-> 0,
                                         fileCounter |-> 0]
                              /\ opc' = "listApps"
                              /\ UNCHANGED jobErr
    /\ UNCHANGED <<event, mu, appsLeft, app, workers, runVars, storeVars>>

\* handleRequest's local destPrefix (part_004:262).
DestRoot == parseS3URI(<<"s3://", event.bucket, "/">>).prefix

\* part_004:273-283: the listing of the apps.  One page holds every app (a
\* page holds up to 1000 prefixes); fetching it may fail.
ListApps ==
    /\ opc = "listApps"
    /\ ops' = ops \cup {<<"list", OpApp(agg.sourcePrefix)>>}
    /\ \E ok \in BOOLEAN :
         IF ok
         THEN /\ appsLeft' = CommonPrefixes(agg.sourcePrefix)
              /\ opc' = "forApp"
              /\ UNCHANGED jobErr
         ELSE /\ JobReturns(<<"error listing apps">>)
              /\ UNCHANGED appsLeft
    /\ UNCHANGED <<event, dryRun, store, agg, mu, app, workers, putLog, dryLog, flushLog>>
    /\ UNCHANGED runVars

\* A handleRequest that does not reset the counter between apps.
KeepFileCounter(a) == a

\* part_004:290: agg.fileCounter = 0
ResetFileCounter(a) == [a EXCEPT !.fileCounter = 0]

\* part_004:285-297 and 168-195: the next app prefix of the page: the counter
\* reset, the two prefixes, and the start of run (channels, workers, paginator).
\* After the last prefix handleRequest returns nil (part_004:303).
ForApp ==
    /\ opc = "forApp"
    /\ IF appsLeft = <<>>
       THEN /\ JobReturns(Nil)
            /\ UNCHANGED <<agg, app, objChanClosed, errChan, wg, pager, runNo, listed, workers>>
            /\ UNCHANGED ops
       ELSE LET appPrefix == Head(appsLeft)
                name == TrimSuffix(TrimPrefix(appPrefix, agg.sourcePrefix), <<"/">>)
            IN /\ app' = name[1]
               /\ agg' = [ResetFileCounter(agg) EXCEPT
                                     !.sourcePrefix = appPrefix \o <<event.date, "/">>,
                                     !.destPrefix = DestRoot \o name \o <<"/", event.date, "/">>]
               /\ objChanClosed' = FALSE
               /\ errChan' = <<>>
               /\ wg' = workerCount
               /\ workers' = Spawned
               /\ pager' = [first |-> TRUE, token |-> <<>>]
               /\ runNo' = runNo + 1
               /\ listed' = <<>>
               /\ ops' = ops \cup {<<"run", name[1]>>}
               /\ opc' = "listPage"
               /\ UNCHANGED jobErr
    /\ UNCHANGED <<event, dryRun, mu, appsLeft, page, runErr, runResult>>
    /\ UNCHANGED <<store, putLog, dryLog, flushLog>>

\* run returns err to handleRequest.
RunReturns(err) ==
    /\ runErr' = err
    /\ runResult' = [runResult EXCEPT ![app] = IF err = Nil THEN Ok ELSE err]
    /\ opc' = "runReturned"

\* A handleRequest that goes to the next prefix whatever run returned.
HandleRunResultIgnoresError ==
    /\ opc = "runReturned"
    /\ appsLeft' = Tail(appsLeft)
    /\ opc' = "forApp"
    /\ UNCHANGED <<event, dryRun, jobErr, agg, mu, app, workers, runVars, storeVars>>

\* part_004:285 and 297-299: an error of run is returned, otherwise the loop
\* goes to the next prefix.
HandleRunResult ==
    /\ opc = "runReturned"
    /\ IF runErr # Nil
       THEN JobReturns(runErr) /\ UNCHANGED appsLeft
       ELSE /\ appsLeft' = Tail(appsLeft)
            /\ opc' = "forApp"
            /\ UNCHANGED jobErr
    /\ UNCHANGED <<event, dryRun, agg, mu, app, workers, runVars, storeVars>>

----------------------------------------------------------------------------
(* run: the orchestrator's side *)

\* paginator.HasMorePages
HasMorePages == pager.first \/ pager.token # <<>>

\* A run that returns the listing error without closing objChan.
RunNextPageLeavesOpen ==
    /\ opc = "listPage"
    /\ IF ~HasMorePages
       THEN /\ objChanClosed' = TRUE
            /\ opc' = "wait"
            /\ UNCHANGED <<pager, page, listed, ops, runErr, runResult>>
       ELSE /\ ops' = ops \cup {<<"list", OpApp(agg.sourcePrefix)>>}
            /\ \E ok \in BOOLEAN :
                 IF ~ok
                 THEN /\ RunReturns(<<"error listing objects">>)
                      /\ UNCHANGED <<objChanClosed, pager, page, listed>>
                 ELSE LET rest == ListKeys(agg.sourcePrefix, pager.token)
                      IN \E n \in 0..Len(rest) :
                           /\ n = 0 => rest = <<>>
                           /\ page' = SubSeq(rest, 1, n)
                           /\ listed' = listed \o SubSeq(rest, 1, n)
                           /\ pager' = [first |-> FALSE,
                                        token |-> IF n < Len(rest) THEN <<rest[n]>> ELSE <<>>]
                           /\ opc' = IF n = 0 THEN "listPage" ELSE "select"
                           /\ UNCHANGED <<objChanClosed, runErr, runResult>>
    /\ UNCHANGED <<jobVars, store, agg, mu, errChan, wg, runNo, workers>>
    /\ UNCHANGED <<putLog, dryLog, flushLog>>

\* part_004:197-202 and 220: without more pages objChan is closed and run goes
\* on to wg.Wait; otherwise the next page is fetched, of as many keys as the
\* store chooses to return, and the fetch may fail.
RunNextPage ==
    /\ opc = "listPage"
    /\ IF ~HasMorePages
       THEN /\ objChanClosed' = TRUE
            /\ opc' = "wait"
            /\ UNCHANGED <<pager, page, listed, ops, runErr, runResult>>
       ELSE /\ ops' = ops \cup {<<"list", OpApp(agg.sourcePrefix)>>}
            /\ \E ok \in BOOLEAN :
                 IF ~ok
                 THEN /\ objChanClosed' = TRUE
                      /\ RunReturns(<<"error listing objects">>)
                      /\ UNCHANGED <<pager, page, listed>>
                 ELSE LET rest == ListKeys(agg.sourcePrefix, pager.token)
                      IN \E n \in 0..Len(rest) :
                           /\ n = 0 => rest = <<>>
                           /\ page' = SubSeq(rest, 1, n)
                           /\ listed' = listed \o SubSeq(rest, 1, n)
                           /\ pager' = [first |-> FALSE,
                                        token |-> IF n < Len(rest) THEN <<rest[n]>> ELSE <<>>]
                           /\ opc' = IF n = 0 THEN "listPage" ELSE "select"
                           /\ UNCHANGED <<objChanClosed, runErr, runResult>>
    /\ UNCHANGED <<jobVars, store, agg, mu, errChan, wg, runNo, workers>>
    /\ UNCHANGED <<putLog, dryLog, flushLog>>

\* part_004:209 with 179: the select sends the next key of the page on the
\* unbuffered objChan to a worker that is receiving.
Dispatch ==
    /\ opc = "select"
    /\ ~objChanClosed
    /\ BagIn(Receiving, workers)
    /\ Becomes(Receiving, Worker("get", Head(page), NoContent, Nil))
    /\ page' = Tail(page)
    /\ opc' = IF Tail(page) = <<>> THEN "listPage" ELSE "select"
    /\ UNCHANGED <<jobVars, agg, mu, objChanClosed, errChan, wg, pager, runErr>>
    /\ UNCHANGED <<runResult, runNo, listed, storeVars>>

\* A run that, having received an error and closed objChan, goes on with its
\* loop.
RecvErrGoesOn ==
    /\ opc = "select"
    /\ errChan # <<>>
    /\ errChan' = Tail(errChan)
    /\ objChanClosed' = TRUE
    /\ UNCHANGED <<jobVars, opc, agg, mu, wg, pager, page, runErr, runResult>>
    /\ UNCHANGED <<runNo, listed, workers, storeVars>>

\* part_004:206-208: the select receives an error: objChan is closed and run
\* returns the error, without waiting for the workers.
RecvErr ==
    /\ opc = "select"
    /\ errChan # <<>>
    /\ errChan' = Tail(errChan)
    /\ objChanClosed' = TRUE
    /\ RunReturns(Head(errChan))
    /\ UNCHANGED <<jobVars, agg, mu, wg, pager, page, runNo, listed, workers, storeVars>>

\* A run that does not wait for its workers before the final uploadBuffer.
WgNoWait ==
    /\ opc = "wait"
    /\ opc' = "ubLock"
    /\ UNCHANGED <<jobVars, agg, mu, runVars, workers, storeVars>>

\* part_004:221-224: wg.Wait returns once every worker is done; run then calls
\* uploadBuffer.
WgWait ==
    /\ opc = "wait"
    /\ wg = 0
    /\ opc' = "ubLock"
    /\ UNCHANGED <<jobVars, agg, mu, runVars, workers, storeVars>>

----------------------------------------------------------------------------
(* uploadBuffer, called by run (the orchestrator) and by writeContent (a worker) *)

\* A mutex that never blocks.
MutexNeverBlocks == TRUE

\* sync.Mutex.Lock blocks while the mutex is locked, whichever goroutine
\* locked it.
MutexFree == ~mu

\* part_004:80: a.mu.Lock()
UploadBufferLock(g) ==
    /\ g.pc = "ubLock"
    /\ MutexFree
    /\ mu' = TRUE
    /\ Goes(g, "ubIn")
    /\ UNCHANGED <<jobVars, agg, runVars, storeVars>>

\* An uploadBuffer that does not look at the flag.
NeverDryRun == FALSE

\* Whether uploadBuffer logs instead of uploading (part_004:99).
IsDryRun == dryRun

\* A run that returns nil after its final uploadBuffer without looking at
\* errChan.
AfterUploadBufferDropsErrors(g, err, a1) ==
    IF g.id = "orch"
    THEN /\ agg' = a1
         /\ errChan' = errChan /\ RunReturns(err)
         /\ workers' = workers
    ELSE /\ IF err # Nil
            THEN /\ agg' = a1
                 /\ Becomes(g, Worker("sendErr", g.key, NoContent, err))
            ELSE /\ agg' = a1
                 /\ Becomes(g, [g EXCEPT !.pc = "wcWrite"])
         /\ UNCHANGED <<opc, errChan, runErr, runResult>>

\* What follows uploadBuffer's return of err with the aggregator as a1, the
\* mutex unlocked by the deferred Unlock.  In run (part_004:224-234): an error
\* is returned, otherwise the select takes an error from errChan if there is
\* one.  In writeContent (part_004:131-136): an error is returned to the worker,
\* otherwise the Write of the compressed content follows.
AfterUploadBuffer(g, err, a1) ==
    IF g.id = "orch"
    THEN /\ agg' = a1
         /\ IF err = Nil /\ errChan # <<>>
            THEN errChan' = Tail(errChan) /\ RunReturns(Head(errChan))
            ELSE errChan' = errChan /\ RunReturns(err)
         /\ workers' = workers
    ELSE /\ IF err # Nil
            THEN /\ agg' = a1
                 /\ Becomes(g, Worker("sendErr", g.key, NoContent, err))
            ELSE /\ agg' = a1
                 /\ Becomes(g, [g EXCEPT !.pc = "wcWrite"])
         /\ UNCHANGED <<opc, errChan, runErr, runResult>>

\* An uploadBuffer that does not look whether the buffer is empty.
BufferNeverEmpty(a) == FALSE

\* part_004:83: a.currentBuffer.Len() == 0
BufferIsEmpty(a) == Len(a.currentBuffer) = 0

\* An uploadBuffer that leaves the counter as it is.
KeepCounter(a) == a

\* part_004:87: a.fileCounter++
IncrementCounter(a) == [a EXCEPT !.fileCounter = a.fileCounter + 1]

\* part_004:92: a.currentBuffer.WriteTo(gzWriter) writes the buffer's bytes to
\* the gzip writer and drains the buffer.
BufferWriteTo(a) == [a EXCEPT !.currentBuffer = <<>>]

\* A reset that leaves the size as it is.
ResetBufferOnly(a) == [a EXCEPT !.currentBuffer = <<>>]

\* part_004:112-113: a.currentBuffer.Reset(); a.currentSize = 0
BufferReset(a) == [a EXCEPT !.currentBuffer = <<>>, !.currentSize = 0]

\* part_004:83-114, under the mutex: nothing for an empty buffer; otherwise the
\* counter, the key, the compression (currentBuffer.WriteTo drains the buffer
\* into the gzip writer, part_004:92), the log line or the PutObject, and the
\* reset.  A PutObject that fails returns before the reset: the buffer is
\* already drained, the size is left as it was.
UploadBufferBody(g) ==
    /\ g.pc = "ubIn"
    /\ mu' = FALSE
    /\ IF BufferIsEmpty(agg)
       THEN /\ AfterUploadBuffer(g, Nil, agg)
            /\ UNCHANGED <<store, putLog, dryLog, flushLog, ops>>
       ELSE LET counted == IncrementCounter(agg)
                n == counted.fileCounter
                key == BundleKey(agg.destPrefix, n)
                drained == BufferWriteTo(counted)
                reset == BufferReset(drained)
            IN /\ flushLog' = Append(flushLog,
                      [run |-> runNo, app |-> app, by |-> g.id, n |-> n, key |-> key,
                       data |-> agg.currentBuffer])
               /\ IF IsDryRun
                  THEN /\ dryLog' = Append(dryLog, [bucket |-> agg.destBucket, key |-> key])
                       /\ AfterUploadBuffer(g, Nil, reset)
                       /\ UNCHANGED <<store, putLog, ops>>
                  ELSE /\ putLog' = Append(putLog, [key |-> key, data |-> agg.currentBuffer])
                       /\ ops' = ops \cup {<<"put", OpApp(key)>>}
                       /\ dryLog' = dryLog
                       /\ \E ok \in BOOLEAN :
                            IF ok
                            THEN /\ store' = {o \in store : o.key # key} \cup
                                        {[key |-> key,
                                          c |-> BundleContent(key, agg.currentBuffer),
                                          data |-> agg.currentBuffer]}
                                 /\ AfterUploadBuffer(g, Nil, reset)
                            ELSE /\ store' = store
                                 /\ AfterUploadBuffer(g, <<"error uploading to S3">>, drained)
    /\ UNCHANGED <<jobVars, objChanClosed, wg, pager, page, runNo, listed>>

----------------------------------------------------------------------------
(* The workers of run *)

\* part_004:178-179: the range over objChan ends when the channel is closed.
WorkerExit ==
    /\ objChanClosed
    /\ BagIn(Receiving, workers)
    /\ Exits(Receiving)
    /\ UNCHANGED <<jobVars, opc, agg, mu, objChanClosed, errChan, pager, page, runErr>>
    /\ UNCHANGED <<runResult, runNo, listed, storeVars>>

\* The three errors processObject makes itself, each naming the key.
ProcessErrors == {"error getting object", "error creating gzip reader for",
                  "error reading content from"}

\* part_004:144-165: GetObject, the gzip reader and ReadAll; each may fail.
\* With the content read, writeContent is called.
ProcessObject(w) ==
    /\ w.pc = "get"
    /\ ops' = ops \cup {<<"get", OpApp(w.key)>>}
    /\ \/ \E o \in store :
            /\ o.key = w.key
            /\ Becomes(w, Worker("wcLock", w.key, o.c, Nil))
       \/ \E e \in ProcessErrors :
            Becomes(w, Worker("sendErr", w.key, NoContent, <<e>> \o w.key))
    /\ UNCHANGED <<jobVars, opc, store, agg, mu, runVars, putLog, dryLog, flushLog>>

\* A worker that, having sent its error, goes back to its receive.
SendErrAndGoOn(w) ==
    /\ w.pc = "sendErr"
    /\ Len(errChan) < workerCount
    /\ errChan' = Append(errChan, w.err)
    /\ Becomes(w, Receiving)
    /\ UNCHANGED <<jobVars, opc, agg, mu, objChanClosed, wg, pager, page, runErr>>
    /\ UNCHANGED <<runResult, runNo, listed, storeVars>>

\* A worker that, having sent its error, sends it again.
SendErrAgain(w) ==
    /\ w.pc = "sendErr"
    /\ Len(errChan) < workerCount
    /\ errChan' = Append(errChan, w.err)
    /\ UNCHANGED <<jobVars, opc, agg, mu, objChanClosed, wg, pager, page, runErr>>
    /\ UNCHANGED <<runResult, runNo, listed, storeVars, workers>>

\* part_004:181-182: the error is sent on errChan, which holds up to
\* workerCount errors, and the worker returns.
SendErr(w) ==
    /\ w.pc = "sendErr"
    /\ Len(errChan) < workerCount
    /\ errChan' = Append(errChan, w.err)
    /\ Exits(w)
    /\ UNCHANGED <<jobVars, opc, agg, mu, objChanClosed, pager, page, runErr>>
    /\ UNCHANGED <<runResult, runNo, listed, storeVars>>

\* A writeContent that does not wait for the mutex.
WriteContentNoLock(w) ==
    /\ w.pc = "wcLock"
    /\ mu' = TRUE
    /\ Goes(w, "wcIn")
    /\ UNCHANGED <<jobVars, agg, runVars, storeVars>>

\* part_004:118: a.mu.Lock()
WriteContentLock(w) ==
    /\ w.pc = "wcLock"
    /\ MutexFree
    /\ mu' = TRUE
    /\ Goes(w, "wcIn")
    /\ UNCHANGED <<jobVars, agg, runVars, storeVars>>

\* A size check with > for >=.
ExceedsThreshold(size, n) == size + n > maxOutputSize

\* The size check of part_004:130.
MeetsThreshold(size, n) == size + n >= maxOutputSize

\* part_004:121-134, under the mutex: the content is compressed; when the size
\* check meets the threshold uploadBuffer is called (with the mutex held);
\* otherwise the Write of the compressed content follows.
WriteContentBody(w) ==
    /\ w.pc = "wcIn"
    /\ IF MeetsThreshold(agg.currentSize, Len(Gzip(w.c)))
       THEN Goes(w, "ubLock")
       ELSE Goes(w, "wcWrite")
    /\ UNCHANGED <<jobVars, agg, mu, runVars, storeVars>>

\* part_004:136-141, under the mutex: the Write copies the compressed content
\* into the buffer byte after byte; then the n it returns is added to the size,
\* the deferred Unlock runs and the worker is back at its receive.
WriteContentWrite(w) ==
    /\ w.pc = "wcWrite"
    /\ IF w.n < Len(Gzip(w.c))
       THEN /\ agg' = [agg EXCEPT
                   !.currentBuffer = BufferWrite(agg.currentBuffer, Gzip(w.c)[w.n + 1])]
            /\ Becomes(w, [w EXCEPT !.n = w.n + 1])
            /\ mu' = mu
       ELSE /\ agg' = [agg EXCEPT !.currentSize = agg.currentSize + w.n]
            /\ mu' = FALSE
            /\ Becomes(w, Receiving)
    /\ UNCHANGED <<jobVars, opc, runVars, storeVars>>

----------------------------------------------------------------------------

Next ==
    \/ HandleRequest
    \/ ListApps
    \/ ForApp
    \/ HandleRunResult
    \/ RunNextPage
    \/ Dispatch
    \/ RecvErr
    \/ WgWait
    \/ \E g \in Goroutines : UploadBufferLock(g)
    \/ \E g \in Goroutines : UploadBufferBody(g)
    \/ WorkerExit
    \/ \E w \in LiveWorkers : ProcessObject(w)
    \/ \E w \in LiveWorkers : SendErr(w)
    \/ \E w \in LiveWorkers : WriteContentLock(w)
    \/ \E w \in LiveWorkers : WriteContentBody(w)
    \/ \E w \in LiveWorkers : WriteContentWrite(w)

Spec == Init /\ [][Next]_vars

\* The same program started on a bucket in which the first app holds one log
\* more than there are workers, every log of the compressible kind.
ManyLogs == workerCount + 1

ManyLogsStore ==
    StoreOf([a \in AppSet |-> <<>>]) \cup
    {[key |-> LogKey(AppNames[1], i),
      c |-> LogContent(LogKey(AppNames[1], i), "zeros"),
      data |-> <<>>] : i \in 1..ManyLogs}

InitManyLogs ==
    /\ event = [date |-> TheDate, bucket |-> TheBucket, dryRun |-> FALSE]
    /\ dryRun = FALSE
    /\ store = ManyLogsStore
    /\ opc = "start"
    /\ jobErr = Nil
    /\ agg = NoAgg
    /\ mu = FALSE
    /\ appsLeft = <<>>
    /\ app = ""
    /\ objChanClosed = FALSE
    /\ errChan = <<>>
    /\ wg = 0
    /\ pager = [first |-> FALSE, token |-> <<>>]
    /\ page = <<>>
    /\ runErr = Nil
    /\ workers = EmptyBag
    /\ putLog = <<>>
    /\ dryLog = <<>>
    /\ flushLog = <<>>
    /\ ops = {}
    /\ runResult = [a \in AppSet |-> NotRun]
    /\ runNo = 0
    /\ listed = <<>>

SpecManyLogs == InitManyLogs /\ [][Next]_vars

----------------------------------------------------------------------------
(* What the claims speak of *)

\* run has just returned nil to handleRequest.
RunSucceeded == opc = "runReturned" /\ runErr = Nil

Range(q) == {q[i] : i \in 1..Len(q)}

Count(q, x) == Cardinality({i \in 1..Len(q) : q[i] = x})

\* q and r hold the same elements the same number of times.
SameMultiset(q, r) == \A x \in Range(q) \cup Range(r) : Count(q, x) = Count(r, x)

RECURSIVE Concat(_)
Concat(qs) == IF qs = <<>> THEN <<>> ELSE Head(qs) \o Concat(Tail(qs))

\* The flushes of run number r, in order.
FlushesOf(r) == SelectSeq(flushLog, LAMBDA f : f.run = r)

\* The bytes of the bundles run number r flushed, in bundle order.
BundleBytes(r) == Concat([i \in 1..Len(FlushesOf(r)) |-> FlushesOf(r)[i].data])

\* The decoded content of the object stored under key k.
ContentOf(k) == (CHOOSE o \in store : o.key = k).c

\* The contents of the source objects the current run's listing returned.
ListedContents == [i \in 1..Len(listed) |-> ContentOf(listed[i])]

\* The keys this job uploaded.
PutKeys == {putLog[i].key : i \in 1..Len(putLog)}

\* The source objects of the current partition: what the store holds under the
\* run's source prefix, the job's own uploads apart.
SourceKeys == {o.key : o \in {x \in store : IsPrefix(agg.sourcePrefix, x.key)}} \ PutKeys

----------------------------------------------------------------------------
(* C1 *)

\* C1 (as claimed): every partition run returns, so there is no state in which
\* handleRequest has not returned and no goroutine can take a step.
C1_NoRunBlockedForever == opc = "done" \/ ENABLED Next

----------------------------------------------------------------------------
(* C2 *)

\* C2: when a partition run returns success, the listing has returned every
\* source object of the partition once, and decoding the bundles the run
\* flushed yields the contents of exactly these objects, each once.
C2_BundlesHoldSourcesOnce ==
    RunSucceeded =>
        /\ Range(listed) = SourceKeys
        /\ Len(listed) = Cardinality(SourceKeys)
        /\ Gunzip(BundleBytes(runNo)) # Corrupt
        /\ SameMultiset(Gunzip(BundleBytes(runNo)), ListedContents)

\* A run over two source objects has returned success, its bundle flushed.
C2_Witness ==
    /\ RunSucceeded
    /\ Len(listed) = 2
    /\ Len(FlushesOf(runNo)) = 1

----------------------------------------------------------------------------
(* C3 *)

\* C3: a job started in dry-run mode has invoked PutObject zero times; a live
\* job has invoked it once for every flush of a non-empty buffer, with that
\* flush's key and bytes, and has logged no dry-run line.
C3_PutOncePerFlushNoneInDryRun ==
    IF event.dryRun
    THEN putLog = <<>> /\ Len(dryLog) = Len(flushLog)
    ELSE /\ Len(putLog) = Len(flushLog)
         /\ dryLog = <<>>
         /\ \A i \in 1..Len(putLog) :
              putLog[i].key = flushLog[i].key /\ putLog[i].data = flushLog[i].data

\* A live job has flushed, and uploaded, a bundle for each of two partitions.
C3_Witness == ~event.dryRun /\ Len(flushLog) = 2 /\ Len(putLog) = 2

----------------------------------------------------------------------------
(* C4 *)

RECURSIVE SumRaw(_)
SumRaw(cs) == IF cs = <<>> THEN 0 ELSE Head(cs).rawLen + SumRaw(Tail(cs))

RECURSIVE SumGz(_)
SumGz(cs) == IF cs = <<>> THEN 0 ELSE Head(cs).gzLen + SumGz(Tail(cs))

CeilDiv(x, y) == (x + y - 1) \div y

Max(x, y) == IF x >= y THEN x ELSE y

\* C4 (as claimed): a successful run over N objects of total content size S
\* has produced ceil(S/T) bundles, at least 1, when N > 0, and none when N = 0.
C4_BundlesAreCeilOfContentSize ==
    RunSucceeded =>
        Len(FlushesOf(runNo)) =
            IF Len(listed) = 0 THEN 0
            ELSE Max(1, CeilDiv(SumRaw(ListedContents), maxOutputSize))

\* C4 (amended): with S the total of the objects' gzip-compressed sizes, which
\* is what the buffer counts, a successful run has S < T and has produced
\* ceil(S/T) bundles, at least 1 (so exactly 1), when N > 0, and none when
\* N = 0.
C4_BundlesAreCeilOfCompressedSize ==
    RunSucceeded =>
        /\ SumGz(ListedContents) < maxOutputSize
        /\ Len(FlushesOf(runNo)) =
              IF Len(listed) = 0 THEN 0
              ELSE Max(1, CeilDiv(SumGz(ListedContents), maxOutputSize))

\* A run over two objects, of compressed sizes 2 and 1, has returned success
\* with one bundle.
C4_Witness ==
    /\ RunSucceeded
    /\ Len(listed) = 2
    /\ SumGz(ListedContents) = 3
    /\ Len(FlushesOf(runNo)) = 1

----------------------------------------------------------------------------
(* C5 *)

\* C5 (as claimed): while an error a worker reported is in errChan, the run
\* flushes no bundle.
C5_NoFlushOnceErrorReported == [][errChan # <<>> => flushLog' = flushLog]_vars

----------------------------------------------------------------------------
(* C6 *)

AppIndex(a) == CHOOSE i \in 1..Len(AppNames) : AppNames[i] = a

Failed(a) == runResult[a] # NotRun /\ runResult[a] # Ok

\* C6: once the run of an app has returned an error, handleRequest is
\* returning, what it returns is that error, and for no later app a run was
\* started or a list, get or put issued.
C6_RunErrorEndsJob ==
    \A a \in AppSet :
        Failed(a) =>
            /\ opc \in {"runReturned", "done"}
            /\ opc = "done" => jobErr = runResult[a]
            /\ \A b \in AppSet :
                 AppIndex(b) > AppIndex(a) =>
                    /\ runResult[b] = NotRun
                    /\ \A op \in {"run", "list", "get", "put"} : <<op, b>> \notin ops

\* The run of the first app has failed and handleRequest has returned its
\* error; the second app is untouched.
C6_Witness ==
    /\ opc = "done"
    /\ Failed(AppNames[1])
    /\ jobErr = runResult[AppNames[1]]
    /\ runResult[AppNames[2]] = NotRun

----------------------------------------------------------------------------
(* C7 *)

\* The three decimal digits of n < 1000.
ThreeDigits(n) ==
    <<DigitChar[(n \div 100) + 1], DigitChar[((n \div 10) % 10) + 1], DigitChar[(n % 10) + 1]>>

\* How many of the first i flushes belong to the run of flush i.
OrdinalInRun(i) == Cardinality({j \in 1..i : flushLog[j].run = flushLog[i].run})

\* C7: the i-th flush of a non-empty buffer within a run has number i and key
\* <dest-prefix><app>/<date>/aggregated_<i as three digits>.gz.
C7_BundleNumberIsOrdinalInRun ==
    \A i \in 1..Len(flushLog) :
        /\ flushLog[i].n = OrdinalInRun(i)
        /\ flushLog[i].key =
              DestRoot \o <<flushLog[i].app, "/", TheDate, "/", "aggregated_">>
                  \o ThreeDigits(OrdinalInRun(i)) \o <<".gz">>

\* Both partitions have flushed a bundle, each its number 1.
C7_Witness ==
    /\ Len(flushLog) = 2
    /\ flushLog[1].run = 1 /\ flushLog[1].n = 1
    /\ flushLog[2].run = 2 /\ flushLog[2].n = 1

----------------------------------------------------------------------------
(* C8 *)

WholeMembers(bytes) == Gunzip(bytes) # Corrupt

Writers == {w \in LiveWorkers : w.pc = "wcWrite"}

\* C8: every bundle flushed is whole compressed objects one after another and
\* no object is in two bundles; the buffer is whole compressed objects, followed,
\* while a Write is copying, by the part of its object copied so far.
C8_ObjectsAreContiguousAndWhole ==
    /\ \A i \in 1..Len(flushLog) : WholeMembers(flushLog[i].data)
    /\ \A i, j \in 1..Len(flushLog) :
         i # j => Range(flushLog[i].data) \cap Range(flushLog[j].data) = {}
    /\ IF Writers = {}
       THEN WholeMembers(agg.currentBuffer)
       ELSE \A w \in Writers :
              LET buf == agg.currentBuffer
              IN /\ w.n <= Len(buf)
                 /\ SubSeq(buf, Len(buf) - w.n + 1, Len(buf)) = SubSeq(Gzip(w.c), 1, w.n)
                 /\ WholeMembers(SubSeq(buf, 1, Len(buf) - w.n))

\* A bundle of two objects has been flushed.
C8_Witness == \E i \in 1..Len(flushLog) : Len(Gunzip(flushLog[i].data)) = 2

----------------------------------------------------------------------------
(* C9 *)

\* The workers inside writeContent's critical section (which includes its call
\* of uploadBuffer) or inside uploadBuffer's.
InsideWorkers ==
    [w \in {x \in LiveWorkers : x.pc \in {"wcIn", "wcWrite", "ubLock", "ubIn"}} |-> workers[w]]

\* The number of goroutines inside a critical section.
Inside == BagCardinality(InsideWorkers) + (IF opc = "ubIn" THEN 1 ELSE 0)

SharedFields(a) == <<a.currentBuffer, a.currentSize, a.fileCounter>>

\* C9: at most one goroutine is inside the append or flush critical section,
\* the mutex is locked exactly when one is, and while workers are alive the
\* buffer, the size and the file counter change only in a step taken with the
\* mutex locked.
C9_MutualExclusion ==
    /\ [](Inside <= 1 /\ (mu <=> Inside = 1))
    /\ [][(workers # EmptyBag /\ SharedFields(agg') # SharedFields(agg)) => mu]_vars

\* One worker is copying into the buffer while another waits for the mutex.
C9_Witness ==
    \E w1, w2 \in LiveWorkers : w1.pc = "wcWrite" /\ w1.n = 1 /\ w2.pc = "wcLock"

----------------------------------------------------------------------------
(* C10 *)

\* C10 (as claimed): when run returns, and afterwards, none of its workers is
\* alive.
C10_NoWorkerOutlivesRun == opc \in {"runReturned", "done"} => workers = EmptyBag

----------------------------------------------------------------------------
(* C11 *)

\* run returns in this step.
RunReturnsNow == opc # "runReturned" /\ opc' = "runReturned"

\* C11 (as claimed): when run returns while a worker's error is in errChan, it
\* returns the first error sent on errChan, not a listing error or an upload
\* error in its place.
C11_RunReturnsFirstWorkerError ==
    [][(RunReturnsNow /\ errChan # <<>>) => runErr' = Head(errChan)]_vars

----------------------------------------------------------------------------
(* C12 *)

\* The current run's listing has returned every source object of the partition
\* and they are of one compressed size, smaller than the threshold.
EqualSizedBelowThreshold ==
    /\ listed # <<>>
    /\ Range(listed) = SourceKeys
    /\ \A i \in 1..Len(listed) :
         /\ ListedContents[i].gzLen = ListedContents[1].gzLen
         /\ ListedContents[i].gzLen < maxOutputSize

\* C12 (as claimed): a run over equal-sized objects, each smaller than T, whose
\* sizes sum to exactly T or to T + 1, is never blocked for good, and when it
\* has returned success it has produced 1 bundle for the sum T and 2 bundles
\* for the sum T + 1.
C12_ThresholdEdgeBundleCounts ==
    (EqualSizedBelowThreshold
        /\ SumGz(ListedContents) \in {maxOutputSize, maxOutputSize + 1}) =>
        /\ opc = "done" \/ ENABLED Next
        /\ RunSucceeded =>
             Len(FlushesOf(runNo)) =
                IF SumGz(ListedContents) = maxOutputSize THEN 1 ELSE 2

----------------------------------------------------------------------------
(* C13 *)

\* handleRequest has returned nil.
JobSucceeded == opc = "done" /\ jobErr = Nil

\* The source objects app a holds for the date (the job's uploads apart), in
\* key order, and their contents.
AppSourceKeys(a) ==
    SortKeys({o.key : o \in {x \in store : IsPrefix(<<a, "/", TheDate, "/">>, x.key)}}
                \ PutKeys)

AppSourceContents(a) == [i \in 1..Len(AppSourceKeys(a)) |-> ContentOf(AppSourceKeys(a)[i])]

\* The bundles flushed for app a.
FlushesOfApp(a) == SelectSeq(flushLog, LAMBDA f : f.app = a)

\* The compressed objects of app a one after another, in key order.
InKeyOrder(a) ==
    Concat([i \in 1..Len(AppSourceContents(a)) |-> Gzip(AppSourceContents(a)[i])])

\* C13 (as claimed): the bundles of a successful job are the same in every
\* execution over the same sources, whatever the interleaving; that is, their
\* contents are a function of the sources: here the sources in key order, the
\* order of the execution in which each append ends before the next key is
\* fetched.
C13_BundleBytesFixedBySources ==
    JobSucceeded =>
        \A a \in AppSet :
            IF AppSourceKeys(a) = <<>> THEN FlushesOfApp(a) = <<>>
            ELSE /\ Len(FlushesOfApp(a)) = 1
                 /\ FlushesOfApp(a)[1].data = InKeyOrder(a)

\* C13 (amended): the bundles of a successful job hold, in every execution
\* over the same sources, the same objects and so have the same sizes: one
\* bundle for each app that has sources, holding each of them once; the order
\* of the objects inside the bundle is the order in which the workers appended.
C13_BundleObjectsFixedBySources ==
    JobSucceeded =>
        \A a \in AppSet :
            IF AppSourceKeys(a) = <<>> THEN FlushesOfApp(a) = <<>>
            ELSE /\ Len(FlushesOfApp(a)) = 1
                 /\ SameMultiset(Gunzip(FlushesOfApp(a)[1].data), AppSourceContents(a))
                 /\ Len(FlushesOfApp(a)[1].data) = SumGz(AppSourceContents(a))

\* A job has succeeded with a bundle that holds its app's two objects in the
\* order opposite to the key order.
C13_Witness ==
    /\ JobSucceeded
    /\ \E a \in AppSet :
         /\ Len(AppSourceKeys(a)) = 2
         /\ Len(FlushesOfApp(a)) = 1
         /\ FlushesOfApp(a)[1].data # InKeyOrder(a)

\* A job has succeeded with a bundle of two objects in key order.
C13_InKeyOrderReached ==
    /\ JobSucceeded
    /\ \E a \in AppSet :
         /\ Len(AppSourceKeys(a)) = 2
         /\ Len(FlushesOfApp(a)) = 1
         /\ FlushesOfApp(a)[1].data = InKeyOrder(a)

----------------------------------------------------------------------------
(* C14 *)

\* The date or the bucket parameter is empty.
ConfigError == event.date = "" \/ event.bucket = ""

\* C14: with an empty date or bucket, handleRequest returns "Date is required"
\* or "Bucket is required" (the date is checked first) and does nothing else:
\* no list, get or put is issued, no run is started, nothing is flushed, the
\* store is as it was, no aggregator is constructed and the dry-run flag keeps
\* the value it had.
C14_ConfigErrorBeforeAnyIO ==
    ConfigError =>
        /\ opc \in {"start", "done"}
        /\ opc = "done" =>
              jobErr = IF event.date = "" THEN <<"Date is required">>
                       ELSE <<"Bucket is required">>
        /\ ops = {}
        /\ putLog = <<>> /\ dryLog = <<>> /\ flushLog = <<>>
        /\ store \in InitialStores
        /\ agg = NoAgg
        /\ dryRun = FALSE
        /\ workers = EmptyBag
        /\ runNo = 0

\* handleRequest has returned for an event that asks for a dry run and has no
\* bucket.
C14_Witness ==
    /\ opc = "done"
    /\ event.date # "" /\ event.bucket = "" /\ event.dryRun
    /\ jobErr = <<"Bucket is required">>

----------------------------------------------------------------------------
(* C15 *)

ListingError == <<"error listing objects">>

\* The fetch of a listing page fails in this step: run returns from its page
\* loop.
ListingFails == opc = "listPage" /\ opc' = "runReturned"

\* run has returned the listing error.
ListingFailed == opc \in {"runReturned", "done"} /\ runErr = ListingError

----------------------------------------------------------------------------
(* C16 *)

\* handleRequest starts the run of the next partition in this step.
RunStarts == runNo' = runNo + 1

\* The apps whose objects the bytes q come from.
AppsOf(q) == {OpApp(q[j].c.obj) : j \in 1..Len(q)}

\* C16: when the run of a partition starts, the buffer is empty, its size is 0,
\* the mutex is free and no worker of an earlier run is alive; every bundle and
\* the buffer hold objects of one partition only, the one whose run flushed or
\* is filling it, and every worker works on a key of the current partition.
C16_RunStartsWithEmptyBuffer ==
    /\ [][RunStarts =>
            /\ agg.currentBuffer = <<>> /\ agg.currentSize = 0
            /\ agg'.currentBuffer = <<>> /\ agg'.currentSize = 0
            /\ ~mu
            /\ workers = EmptyBag]_vars
    /\ [](/\ \A i \in 1..Len(flushLog) : AppsOf(flushLog[i].data) \subseteq {flushLog[i].app}
          /\ AppsOf(agg.currentBuffer) \subseteq {app}
          /\ \A w \in LiveWorkers : w.key # <<>> => OpApp(w.key) = app)

\* The run of the second partition has started after the run of the first
\* flushed a bundle of two objects.
C16_Witness ==
    /\ runNo = 2
    /\ opc = "listPage" /\ pager.first
    /\ Len(flushLog) = 1 /\ Len(Gunzip(flushLog[1].data)) = 2
    /\ agg.currentBuffer = <<>> /\ agg.currentSize = 0

----------------------------------------------------------------------------
(* C17 *)

UploadError == <<"error uploading to S3">>

\* A PutObject is invoked and fails in this step.
UploadFails == putLog' # putLog /\ store' = store

\* C17: when the PutObject of a flush fails, the flush returns
\* "error uploading to S3" to its caller (run returns it, a worker is about to
\* report it), and the file counter stays at the number of the attempted
\* bundle; the counter goes down only when the run of the next partition
\* starts, and no two flushes of a run have the same number or key.
C17_FailedUploadKeepsCounter ==
    /\ [][UploadFails =>
            /\ \/ opc' = "runReturned" /\ runErr' = UploadError
               \/ \E w \in BagToSet(workers') : w.pc = "sendErr" /\ w.err = UploadError
            /\ agg'.fileCounter = agg.fileCounter + 1
            /\ agg'.fileCounter = flushLog'[Len(flushLog')].n]_vars
    /\ [][agg'.fileCounter < agg.fileCounter => RunStarts]_vars
    /\ [](\A i, j \in 1..Len(flushLog) :
            (i # j /\ flushLog[i].run = flushLog[j].run) =>
                flushLog[i].n # flushLog[j].n /\ flushLog[i].key # flushLog[j].key)

\* The upload of the second partition's first bundle has failed and
\* handleRequest has returned the error; the counter is at 1.
C17_Witness ==
    /\ opc = "done"
    /\ jobErr = UploadError
    /\ runNo = 2
    /\ Len(putLog) = 2
    /\ agg.fileCounter = 1

----------------------------------------------------------------------------
(* C18 *)

\* C18 (as claimed): whenever the mutex is free, currentSize is the number of
\* bytes the buffer holds, also after a flush whose upload failed.
C18_SizeIsBufferLength == ~mu => agg.currentSize = Len(agg.currentBuffer)

----------------------------------------------------------------------------
(* C19 *)

\* C19 (as claimed): a flush of a non-empty buffer, whether its upload
\* succeeds or fails, leaves the buffer empty and currentSize 0.
C19_FlushLeavesBufferEmptyAndSizeZero ==
    [][flushLog' # flushLog =>
          agg'.currentBuffer = <<>> /\ agg'.currentSize = 0]_vars

----------------------------------------------------------------------------
(* C20 *)

\* The bytes q are fewer than the threshold, or are one object of at least the
\* threshold.
BelowThresholdOrOneObject(q) ==
    \/ Len(q) < maxOutputSize
    \/ Len(Gunzip(q)) = 1 /\ Gunzip(q) # Corrupt

\* C20: every bundle flushed is smaller than the threshold, unless it is one
\* object of at least the threshold; and whenever the mutex is free,
\* currentSize is below the threshold or the buffer holds exactly one object.
C20_BundlesBelowThreshold ==
    /\ \A i \in 1..Len(flushLog) : BelowThresholdOrOneObject(flushLog[i].data)
    /\ ~mu => \/ agg.currentSize < maxOutputSize
              \/ Len(Gunzip(agg.currentBuffer)) = 1 /\ Gunzip(agg.currentBuffer) # Corrupt

\* A bundle of two objects and of one byte less than the threshold has been
\* flushed.
C20_Witness ==
    \E i \in 1..Len(flushLog) :
        /\ Len(flushLog[i].data) = maxOutputSize - 1
        /\ Len(Gunzip(flushLog[i].data)) = 2

----------------------------------------------------------------------------
(* C21 *)

\* C21 (as claimed): an append whose size check has met the threshold, and
\* which has therefore called uploadBuffer, goes on: uploadBuffer's Lock is
\* granted to it, so that it can flush, append and return.
C21_AppendAtThresholdGoesOn ==
    \A w \in LiveWorkers : w.pc = "ubLock" => ENABLED UploadBufferLock(w)

----------------------------------------------------------------------------
(* C22 *)

\* The key an error of processObject names (the error's words come first).
ErrKey(err) == Tail(err)

\* The keys the live workers hold.
HeldKeys == {w.key : w \in LiveWorkers} \ {<<>>}

\* C22: a worker that sends an error exits in the same step, so the live
\* workers and the errors queued are together never more than the workers
\* spawned, and the WaitGroup counts the live workers; the key an error names
\* is held by no worker afterwards (it is not fetched again), whether the
\* error is still queued or is what run returned.
C22_WorkerReportsOnceAndExits ==
    /\ [](/\ BagCardinality(workers) + Len(errChan) <= workerCount
          /\ wg = BagCardinality(workers)
          /\ \A i \in 1..Len(errChan) : ErrKey(errChan[i]) \notin HeldKeys
          /\ runErr # Nil => ErrKey(runErr) \notin HeldKeys)
    /\ [][Len(errChan') > Len(errChan) =>
            /\ BagCardinality(workers') = BagCardinality(workers) - 1
            /\ \E w \in LiveWorkers :
                 /\ w.pc = "sendErr"
                 /\ errChan' = Append(errChan, w.err)
                 /\ workers' = workers (-) SetToBag({w})]_vars

\* Two workers have each reported the error of their key and have exited; the
\* other two are alive.
C22_Witness ==
    /\ Len(errChan) = 2
    /\ errChan[1] # errChan[2]
    /\ BagCardinality(workers) = workerCount - 2

----------------------------------------------------------------------------
(* C23 *)

\* C23: errChan never holds more than workerCount errors, and a worker that is
\* about to send its error can always send it, whether run is still reading
\* errChan or has returned.
C23_ErrorSendNeverBlocks ==
    /\ Len(errChan) <= workerCount
    /\ \A w \in LiveWorkers : w.pc = "sendErr" => ENABLED SendErr(w)

\* run has returned the listing error and handleRequest has returned; errChan,
\* which nobody will read, holds all errors but one, and the last worker is
\* about to send its own.
C23_Witness ==
    /\ opc = "done"
    /\ jobErr = ListingError
    /\ Len(errChan) = workerCount - 1
    /\ \E w \in LiveWorkers : w.pc = "sendErr"

----------------------------------------------------------------------------
(* C24 *)

\* A step of a worker goroutine.
WorkerStep ==
    \/ WorkerExit
    \/ \E w \in LiveWorkers :
         \/ ProcessObject(w)
         \/ SendErr(w)
         \/ WriteContentLock(w)
         \/ WriteContentBody(w)
         \/ WriteContentWrite(w)
         \/ UploadBufferLock(w)
         \/ UploadBufferBody(w)

\* C24 (as claimed): once objChan is closed, the workers that have not exited
\* finish their keys and exit: while any of them is alive, one of them can
\* take a step.
C24_WorkersDrainAfterClose ==
    (objChanClosed /\ workers # EmptyBag) => ENABLED WorkerStep

----------------------------------------------------------------------------
(* C25 *)

\* The select sends a key to a worker in this step.
Dispatches == opc = "select" /\ page # <<>> /\ page' = Tail(page)

\* C25 (as claimed): while an error a worker reported is in errChan, the
\* select sends no key.
C25_NoDispatchOnceErrorReported == [][errChan # <<>> => ~Dispatches]_vars

----------------------------------------------------------------------------
(* C26 *)

\* uploadBuffer runs, from its emptiness check to its return, on an empty
\* buffer in this step.
EmptyFlush ==
    /\ agg.currentBuffer = <<>>
    /\ \/ opc = "ubIn" /\ opc' # "ubIn"
       \/ \E w \in LiveWorkers : w.pc = "ubIn" /\ workers' # workers

\* C26: uploadBuffer on an empty buffer returns nil and changes neither the
\* file counter nor the buffer nor the size, puts nothing and logs nothing (run
\* then returns nil unless a worker's error is waiting in errChan); and a
\* partition without source objects ends a successful run with file counter 0
\* and no bundle.
C26_EmptyFlushIsNoOp ==
    /\ [][EmptyFlush =>
            /\ agg' = agg
            /\ store' = store
            /\ putLog' = putLog /\ dryLog' = dryLog /\ flushLog' = flushLog
            /\ ~mu'
            /\ opc = "ubIn" =>
                 runErr' = IF errChan = <<>> THEN Nil ELSE Head(errChan)]_vars
    /\ []((RunSucceeded /\ SourceKeys = {}) =>
            /\ agg.fileCounter = 0
            /\ FlushesOf(runNo) = <<>>
            /\ \A o \in store : ~IsPrefix(agg.destPrefix, o.key))

\* The run of the second partition, which has no source object, has returned
\* success after the run of the first flushed a bundle.
C26_Witness ==
    /\ RunSucceeded
    /\ runNo = 2
    /\ SourceKeys = {}
    /\ Len(flushLog) = 1
    /\ agg.fileCounter = 0

----------------------------------------------------------------------------
(* C27 *)

\* The orchestrator is inside run's page loop, where the sends and two of the
\* three closes are, or before the close that follows the loop.
InPageLoop == opc \in {"listPage", "select"}

\* The orchestrator is past a close of objChan.
PastClose == opc \in {"wait", "ubLock", "ubIn", "runReturned"}

\* C27: objChan is open as long as run is in its page loop, so neither a send
\* nor one of the closes finds it closed; it is closed from the close on until
\* run has returned, and is open again only as the new channel of the next
\* run.
C27_ClosedOnceNoSendAfter ==
    /\ [](InPageLoop => ~objChanClosed)
    /\ [](PastClose => objChanClosed)
    /\ [][(objChanClosed /\ ~objChanClosed') => RunStarts]_vars
    /\ [][(~objChanClosed /\ objChanClosed') => (InPageLoop /\ PastClose')]_vars
    /\ [][Dispatches => ~objChanClosed /\ ~objChanClosed']_vars

\* run has received a worker's error at the select, has closed objChan and
\* returned, with a key of the page not sent.
C27_Witness ==
    /\ opc = "runReturned"
    /\ objChanClosed
    /\ page # <<>>
    /\ runErr # Nil /\ runErr # ListingError

----------------------------------------------------------------------------
(* C28 *)

\* The keys of the bundles the store holds.
StoredKeys == {o.key : o \in store}

\* C28: an error leaves errChan only by being received by run, which returns
\* it then; a run that returns with an error in errChan returns an error; and
\* when run has returned nil, no error is queued, every worker has exited,
\* every key the listing returned is in the run's bundles, and in a live job
\* every bundle the run flushed is in the store.
C28_SuccessMeansNoError ==
    /\ [][Len(errChan') < Len(errChan) =>
            (RunReturnsNow /\ runErr' = Head(errChan) /\ runErr' # Nil)]_vars
    /\ [][(RunReturnsNow /\ errChan # <<>>) => runErr' # Nil]_vars
    /\ [](RunSucceeded =>
            /\ errChan = <<>>
            /\ workers = EmptyBag
            /\ SameMultiset(Gunzip(BundleBytes(runNo)), ListedContents)
            /\ ~event.dryRun =>
                 \A i \in 1..Len(FlushesOf(runNo)) : FlushesOf(runNo)[i].key \in StoredKeys)

\* Every worker has exited and the final flush has uploaded a bundle of one
\* object; run has then found the error of the other key in errChan and
\* returned it.
C28_Witness ==
    /\ opc = "runReturned"
    /\ runErr # Nil /\ ErrKey(runErr) # <<>>
    /\ workers = EmptyBag
    /\ Len(listed) = 2
    /\ Len(FlushesOf(runNo)) = 1
    /\ errChan = <<>>

----------------------------------------------------------------------------
(* C29 *)

\* The keys run has sent on objChan: those the listing returned that are no
\* longer waiting in the page.
DispatchedKeys == Range(listed) \ Range(page)

\* The keys of the objects whose last byte is in q.
WholeIn(q) == {q[j].c.obj : j \in {i \in 1..Len(q) : q[i].i = q[i].c.gzLen}}

\* The keys whose append has returned: the object is in the buffer or in a
\* bundle and no worker holds the key any more.
AppendedKeys ==
    (WholeIn(agg.currentBuffer) \cup UNION {WholeIn(flushLog[i].data) : i \in 1..Len(flushLog)})
        \ HeldKeys

\* The keys whose error a worker has sent.
ErroredKeys ==
    {ErrKey(errChan[i]) : i \in 1..Len(errChan)}
        \cup (IF runErr = Nil THEN {} ELSE {ErrKey(runErr)})

\* The keys dispatched whose processing has not finished.
Unfinished == DispatchedKeys \ (AppendedKeys \cup ErroredKeys)

\* C29: the keys dispatched and not yet finished are never more than
\* workerCount, each is in the hands of a worker, and when there are
\* workerCount of them the key run is offering cannot be sent.
C29_UnfinishedAtMostWorkers ==
    /\ Cardinality(Unfinished) <= workerCount
    /\ Unfinished \subseteq HeldKeys
    /\ Cardinality(Unfinished) = workerCount => ~ENABLED Dispatch

\* Every worker is busy with a key and run is at the select, offering the
\* fifth key.
C29_Witness ==
    /\ Cardinality(Unfinished) = workerCount
    /\ opc = "select"
    /\ page # <<>>

----------------------------------------------------------------------------
(* C30 *)

\* C30 (as claimed): the key a flush writes is not under the source prefix the
\* run's enumerator lists.
C30_BundleKeyOutsideSourcePrefix ==
    [][flushLog' # flushLog =>
          ~IsPrefix(agg.sourcePrefix, flushLog'[Len(flushLog')].key)]_vars

====
